---- MODULE Spec2Model ----
(***************************************************************************)
(* Model of the picture store of the social network project: main.py      *)
(* (users, statuses, pictures, the tag canonicaliser, the disk layout and  *)
(* the reconciliation of database records against files) and api.py (the   *)
(* /differences resource).                                                 *)
(*                                                                         *)
(* A Python string is a sequence of one-character strings, so that         *)
(* splitting, sorting, zero-padding and joining are computed character by  *)
(* character.  A path is the sequence of its components; str(path) joins   *)
(* them with "/".                                                          *)
(*                                                                         *)
(* users, statuses and pictures are the committed tables of the database,  *)
(* files and dirs the disk, ret the value the last call returned, history  *)
(* the picture ids of the add_picture calls that returned True, inflight   *)
(* the call that is between two of its steps, with its local variables.    *)
(***************************************************************************)
EXTENDS Integers, Sequences, FiniteSets, TLC

VARIABLES users, statuses, pictures, files, dirs, ret, history, inflight

vars == <<users, statuses, pictures, files, dirs, ret, history, inflight>>

(***************************************************************************)
(* Bounds                                                                  *)
(***************************************************************************)
MaxRawLen == 4

MaxTags == 3

MaxUsers == 1

MaxStatuses == 1

MaxPictures == 2

(***************************************************************************)
(* Characters and strings                                                  *)
(***************************************************************************)
TagChars == {" ", "#", ".", "a", "b"}

Digits == <<"0", "1", "2", "3", "4", "5", "6", "7", "8", "9">>

\* Code point of a character (Python compares strings by code point).
Ord(c) ==
  CASE c = " " -> 32
    [] c = "#" -> 35
    [] c = "." -> 46
    [] c = "/" -> 47
    [] c = "a" -> 97
    [] c = "b" -> 98
    [] OTHER -> 120

Range(s) == {s[i] : i \in 1..Len(s)}

\* All strings over the character set cs of length at most n.
RECURSIVE StringsUpTo(_, _)
StringsUpTo(cs, n) ==
  IF n = 0 THEN {<<>>}
  ELSE LET shorter == StringsUpTo(cs, n - 1)
       IN  shorter \cup {Append(s, c) : s \in {t \in shorter : Len(t) = n - 1}, c \in cs}

\* All sequences over the set S of length at most n.
RECURSIVE SeqsUpTo(_, _)
SeqsUpTo(S, n) ==
  IF n = 0 THEN {<<>>}
  ELSE LET shorter == SeqsUpTo(S, n - 1)
       IN  shorter \cup {Append(s, x) : s \in {t \in shorter : Len(t) = n - 1}, x \in S}

\* a < b for Python strings.
RECURSIVE StrLess(_, _)
StrLess(a, b) ==
  IF b = <<>> THEN FALSE
  ELSE IF a = <<>> THEN TRUE
  ELSE IF Ord(a[1]) < Ord(b[1]) THEN TRUE
  ELSE IF Ord(a[1]) > Ord(b[1]) THEN FALSE
  ELSE StrLess(Tail(a), Tail(b))

\* str.split(" #"): cut at the leftmost occurrence of the separator, repeat
\* on the remainder.
RECURSIVE SplitSpaceHash(_)
SplitSpaceHash(s) ==
  LET hits == {i \in 1..(Len(s) - 1) : s[i] = " " /\ s[i + 1] = "#"}
  IN  IF hits = {} THEN <<s>>
      ELSE LET i == CHOOSE k \in hits : \A m \in hits : k <= m
           IN  <<SubSeq(s, 1, i - 1)>> \o SplitSpaceHash(SubSeq(s, i + 2, Len(s)))

\* Insert x into the ascending list l, after the elements not greater than x.
RECURSIVE InsertSorted(_, _)
InsertSorted(x, l) ==
  IF l = <<>> THEN <<x>>
  ELSE IF StrLess(x, l[1]) THEN <<x>> \o l
  ELSE <<l[1]>> \o InsertSorted(x, Tail(l))

\* sorted(list of strings)
RECURSIVE Sorted(_)
Sorted(l) ==
  IF l = <<>> THEN <<>>
  ELSE InsertSorted(l[Len(l)], Sorted(SubSeq(l, 1, Len(l) - 1)))

\* deconstruct_tags without the trailing sort.
deconstruct_tags_NoSort(tags) == Tail(SplitSpaceHash(<<" ">> \o tags))

\* deconstruct_tags that keeps the first slot of the split.
deconstruct_tags_KeepFirst(tags) == Sorted(SplitSpaceHash(<<" ">> \o tags))

\* main.deconstruct_tags
deconstruct_tags(tags) ==
  LET tags_list == SplitSpaceHash(<<" ">> \o tags)
  IN  Sorted(Tail(tags_list))

(***************************************************************************)
(* Picture ids                                                             *)
(***************************************************************************)
\* str(n) for n >= 0
RECURSIVE Str(_)
Str(n) ==
  IF n < 10 THEN <<Digits[n + 1]>>
  ELSE Append(Str(n \div 10), Digits[(n % 10) + 1])

\* s.zfill(width)
RECURSIVE ZFill(_, _)
ZFill(s, width) ==
  IF Len(s) >= width THEN s ELSE ZFill(<<"0">> \o s, width)

PictureIdWidth == 10

\* The new id without the zero padding.
NewPictureIdNoPad(last_id) == Str(last_id + 1)

\* str(last_id + 1).zfill(10)
NewPictureId(last_id) == ZFill(Str(last_id + 1), PictureIdWidth)

(***************************************************************************)
(* Paths                                                                   *)
(***************************************************************************)
PICTURES == <<"p", "i", "c", "t", "u", "r", "e", "s">>

PNG == <<".", "p", "n", "g">>

\* f"{picture_id}.png"
FileName(picture_id) == picture_id \o PNG

\* pathlib.Path(*segments).parts: empty and "." segments vanish.  No segment
\* of the model holds a "/", so a segment is one component.
PathParts(segments) == SelectSeq(segments, LAMBDA s : s # <<>> /\ s # <<".">>)

\* str(path): components joined with "/"; the empty path prints as ".".
RECURSIVE JoinSlash(_)
JoinSlash(parts) ==
  IF Len(parts) = 1 THEN parts[1]
  ELSE parts[1] \o <<"/">> \o JoinSlash(Tail(parts))

PathStr(parts) == IF parts = <<>> THEN <<".">> ELSE JoinSlash(parts)

\* The directory entry a path names, relative to the working directory: ".."
\* steps to the parent (no symbolic links).
RECURSIVE Resolve(_)
Resolve(parts) ==
  IF parts = <<>> THEN <<>>
  ELSE LET front == Resolve(SubSeq(parts, 1, Len(parts) - 1))
           last  == parts[Len(parts)]
       IN  IF last = <<".", ".">> /\ front # <<>> /\ front[Len(front)] # <<".", ".">>
           THEN SubSeq(front, 1, Len(front) - 1)
           ELSE Append(front, last)

\* pathlib suffix of a file name: from the last dot, unless that dot is the
\* first or the last character.
Suffix(name) ==
  LET dots == {i \in 1..Len(name) : name[i] = "."}
  IN  IF dots = {} THEN <<>>
      ELSE LET j == CHOOSE k \in dots : \A m \in dots : m <= k
           IN  IF j > 1 /\ j < Len(name) THEN SubSeq(name, j, Len(name)) ELSE <<>>

\* fnmatch(name, "*.png")
MatchesStarPng(name) ==
  Len(name) >= Len(PNG) /\ SubSeq(name, Len(name) - Len(PNG) + 1, Len(name)) = PNG

IsPrefix(p, q) == Len(p) <= Len(q) /\ SubSeq(q, 1, Len(p)) = p

(***************************************************************************)
(* Tables.  A table is a set of rows; every row carries the integer key    *)
(* "id" that the storage layer adds.  SQLite hands a new row the largest   *)
(* id in the table plus one.                                               *)
(***************************************************************************)
RowIds(table) == {r.id : r \in table}

MaxRowId(table) == CHOOSE m \in RowIds(table) : \A i \in RowIds(table) : i <= m

NextRowId(table) == IF table = {} THEN 1 ELSE MaxRowId(table) + 1

\* table.insert(**row)
Insert(table, row) == table \cup {[row EXCEPT !.id = NextRowId(table)]}

\* The rows a query returns, in id order.
RECURSIVE RowsInOrder(_)
RowsInOrder(rows) ==
  IF rows = {} THEN <<>>
  ELSE LET first == CHOOSE r \in rows : \A q \in rows : r.id <= q.id
       IN  <<first>> \o RowsInOrder(rows \ {first})

UserRows(user_id) == {r \in users : r.user_id = user_id}

\* The user check of add_picture that finds every user.
UserExistsAlways(user_id) == TRUE

\* user.select().where(user.user_id == user_id).exists()
UserExists(user_id) == UserRows(user_id) # {}

\* The last picture looked up among the pictures of one user only.
LastPictureIdOfUser(user_id) ==
  LET mine == {r \in pictures : r.user_id = user_id}
  IN  IF mine = {} THEN 0 ELSE MaxRowId(mine)

\* picture.select().order_by(picture.id.desc()).limit(1).first() and the id
\* taken from it: the largest row id of the whole table, 0 when it is empty.
LastPictureId(user_id) == IF pictures = {} THEN 0 ELSE MaxRowId(pictures)

(***************************************************************************)
(* Disk.  files and dirs hold the resolved locations of the regular files  *)
(* and of the directories below the working directory, which exists.       *)
(***************************************************************************)
Prefixes(parts) == {SubSeq(parts, 1, n) : n \in 1..Len(parts)}

Exists(loc) == loc = <<>> \/ loc \in dirs \/ loc \in files

IsDir(loc) == loc = <<>> \/ loc \in dirs

\* folder_path.mkdir(parents=True, exist_ok=True) fails when the path or one
\* of its parents is a regular file.
MkdirRaises(parts) == \E q \in Prefixes(parts) : Resolve(q) \in files

\* The directories folder_path.mkdir(parents=True, exist_ok=True) leaves.
MkdirParents(parts) == dirs \cup ({Resolve(q) : q \in Prefixes(parts)} \ {<<>>})

\* folder of save_picture_to_disk
PictureFolder(user_id, tags) == PathParts(<<PICTURES, user_id>> \o deconstruct_tags(tags))

\* file_path of save_picture_to_disk
PictureFile(user_id, picture_id, tags) ==
  Append(PictureFolder(user_id, tags), FileName(picture_id))

\* save_picture_to_disk raises: mkdir fails, or open(file_path, "w") finds a
\* directory.
SaveRaises(user_id, picture_id, tags) ==
  \/ MkdirRaises(PictureFolder(user_id, tags))
  \/ Resolve(PictureFile(user_id, picture_id, tags)) \in MkdirParents(PictureFolder(user_id, tags))
  \/ Resolve(PictureFile(user_id, picture_id, tags)) = <<>>

Children(directory) ==
  {x \in files \cup dirs : Len(x) = Len(directory) + 1 /\ IsPrefix(directory, x)}

\* str(item.relative_to(folder)) for an entry below folder
RelativeTo(item, folder) == PathStr(SubSeq(item, Len(folder) + 1, Len(item)))

\* find_images of list_user_images
RECURSIVE find_images(_, _, _)
find_images(directory, folder_path, user_id) ==
  UNION {IF item \in dirs
         THEN find_images(item, folder_path, user_id)
         ELSE IF Suffix(item[Len(item)]) = PNG
              THEN {<<user_id, RelativeTo(item, folder_path), item[Len(item)]>>}
              ELSE {}
         : item \in Children(directory)}

\* list_user_images that reports paths relative to pictures/.
list_user_images_FromRoot(user_id) ==
  LET folder_path == Resolve(PathParts(<<PICTURES, user_id>>))
  IN  IF ~IsDir(folder_path) THEN {}
      ELSE find_images(folder_path, Resolve(<<PICTURES>>), user_id)

\* main.list_user_images, as the set of its tuples.  A folder that is missing
\* gives [], and so does one that is a regular file (iterdir raises, caught).
list_user_images(user_id) ==
  LET folder_path == Resolve(PathParts(<<PICTURES, user_id>>))
  IN  IF ~Exists(folder_path) THEN {}
      ELSE IF ~IsDir(folder_path) THEN {}
      ELSE find_images(folder_path, folder_path, user_id)

\* The tuple reconcile_images appends to images_in_db for one record.
DbImageTuple(user_id, tags, picture_id) ==
  <<user_id,
    PathStr(PathParts(Append(deconstruct_tags(tags), FileName(picture_id)))),
    FileName(picture_id)>>

\* images_in_db of reconcile_images
images_in_db(user_id) ==
  {DbImageTuple(user_id, record.tags, record.picture_id)
     : record \in {r \in pictures : r.user_id = user_id}}

\* A set difference that removes nothing.
SetDifferenceKeepAll(a, b) == a

\* Python's set(a) - set(b)
SetDifference(a, b) == {x \in a : x \notin b}

\* The string get_images_from_db appends for one record.
DbImagePath(user_id, tags, picture_id) ==
  PathStr(Append(PathParts(<<user_id>> \o deconstruct_tags(tags)), FileName(picture_id)))

\* Differences.get_images_from_db
get_images_from_db(user_id) ==
  {DbImagePath(user_id, record.tags, record.picture_id)
     : record \in {r \in pictures : r.user_id = user_id}}

\* Differences.get_images_from_disk: rglob("*.png") yields every entry below
\* the folder, file or directory, whose name ends in .png.
get_images_from_disk(user_id) ==
  LET folder_path == Resolve(PathParts(<<PICTURES, user_id>>))
  IN  IF ~(Exists(folder_path) /\ IsDir(folder_path)) THEN {}
      ELSE {PathStr(<<user_id>> \o SubSeq(x, Len(folder_path) + 1, Len(x)))
              : x \in {y \in files \cup dirs :
                         /\ Len(y) > Len(folder_path)
                         /\ IsPrefix(folder_path, y)
                         /\ MatchesStarPng(y[Len(y)])}}

\* inflight when no call is between two of its steps.
NoCall == [op |-> "none"]

(***************************************************************************)
(* Inputs                                                                  *)
(***************************************************************************)
UserIds == {<<"u">>, <<"v">>}

StatusIds == {"s1"}

\* "", "#b #a", "#.."
TagInputs ==
  { <<>>,
    <<"#", "b", " ", "#", "a">>,
    <<"#", ".", ".">> }

\* The stores the model starts from: the empty one, and the one left by
\* add_user("u") followed by this many add_picture("u", "").
PreloadCounts == {0, 9}

PreloadedPictures(n) ==
  {[id |-> i, picture_id |-> NewPictureId(i - 1), user_id |-> <<"u">>, tags |-> <<>>]
     : i \in 1..n}

PreloadedUsers(n) ==
  IF n = 0 THEN {}
  ELSE {[id |-> 1, user_id |-> <<"u">>, user_name |-> "n",
         user_last_name |-> "l", user_email |-> "e"]}

PreloadedFiles(n) == {<<PICTURES, <<"u">>, FileName(NewPictureId(i - 1))>> : i \in 1..n}

PreloadedDirs(n) == IF n = 0 THEN {} ELSE {<<PICTURES>>, <<PICTURES, <<"u">>>>}

Init ==
  \E n \in PreloadCounts :
    /\ users = PreloadedUsers(n)
    /\ statuses = {}
    /\ pictures = PreloadedPictures(n)
    /\ files = PreloadedFiles(n)
    /\ dirs = PreloadedDirs(n)
    /\ ret = [op |-> "init"]
    /\ history = <<>>
    /\ inflight = NoCall

(***************************************************************************)
(* Operations of main.py                                                   *)
(***************************************************************************)
\* main.add_user: the insert has no constraint to violate.
AddUser(user_id) ==
  /\ NextRowId(users) <= MaxUsers
  /\ users' = Insert(users, [id |-> 0, user_id |-> user_id, user_name |-> "n",
                             user_last_name |-> "l", user_email |-> "e"])
  /\ ret' = [op |-> "add_user", user_id |-> user_id, result |-> "True"]
  /\ UNCHANGED <<statuses, pictures, files, dirs, history, inflight>>

\* main.add_status: returns None on every path.
AddStatus(status_id, user_id) ==
  /\ UserExists(user_id) => NextRowId(statuses) <= MaxStatuses
  /\ statuses' = IF UserExists(user_id)
                 THEN Insert(statuses, [id |-> 0, status_id |-> status_id,
                                        user_id |-> user_id, status_text |-> "t"])
                 ELSE statuses
  /\ ret' = [op |-> "add_status", user_id |-> user_id, result |-> "None"]
  /\ UNCHANGED <<users, pictures, files, dirs, history, inflight>>

\* The status loop of delete_user: for each status of the user, look the
\* status_id up again and delete the first row that carries it.
RECURSIVE DeleteStatuses(_, _)
DeleteStatuses(table, todo) ==
  IF todo = <<>> THEN [table |-> table, all_statuses_deleted |-> TRUE]
  ELSE LET hits == {r \in table : r.status_id = todo[1].status_id}
       IN  IF hits = {}
           THEN [DeleteStatuses(table, Tail(todo)) EXCEPT !.all_statuses_deleted = FALSE]
           ELSE LET status_to_delete == RowsInOrder(hits)[1]
                IN  DeleteStatuses(table \ {status_to_delete}, Tail(todo))

\* main.delete_user: the user's statuses, then the first row of the user.
\* The pictures table is not touched.
DeleteUser(user_id) ==
  LET done == DeleteStatuses(statuses,
                             RowsInOrder({r \in statuses : r.user_id = user_id}))
      user_deleted == UserRows(user_id) # {}
  IN  /\ statuses' = done.table
      /\ users' = IF user_deleted
                  THEN users \ {RowsInOrder(UserRows(user_id))[1]}
                  ELSE users
      /\ ret' = [op |-> "delete_user", user_id |-> user_id,
                 result |-> IF done.all_statuses_deleted /\ user_deleted
                            THEN "True" ELSE "False"]
      /\ UNCHANGED <<pictures, files, dirs, history, inflight>>

\* main.add_picture with save_picture_to_disk.  The insert comes first; an
\* exception of the disk write is not caught and leaves the record behind.
\* The table has no constraint an insert could violate, so the IntegrityError
\* branch is never taken.
AddPicture(user_id, tags) ==
  /\ UserExists(user_id) => Len(history) < MaxPictures
  /\ IF ~UserExists(user_id)
     THEN /\ ret' = [op |-> "add_picture", user_id |-> user_id, tags |-> tags,
                     result |-> "False", picture_id |-> <<>>]
          /\ UNCHANGED <<users, statuses, pictures, files, dirs, history, inflight>>
     ELSE LET new_picture_id == NewPictureId(LastPictureId(user_id))
              folder == PictureFolder(user_id, tags)
              raised == SaveRaises(user_id, new_picture_id, tags)
          IN  /\ pictures' = Insert(pictures, [id |-> 0, picture_id |-> new_picture_id,
                                               user_id |-> user_id, tags |-> tags])
              /\ dirs' = IF raised THEN dirs ELSE MkdirParents(folder)
              /\ files' = IF raised THEN files
                          ELSE files \cup {Resolve(PictureFile(user_id, new_picture_id, tags))}
              /\ history' = IF raised THEN history ELSE Append(history, new_picture_id)
              /\ ret' = [op |-> "add_picture", user_id |-> user_id, tags |-> tags,
                         result |-> IF raised THEN "Raised" ELSE "True",
                         picture_id |-> new_picture_id]
              /\ UNCHANGED <<users, statuses, inflight>>

\* main.reconcile_images: the two lists it prints and the pair it returns.
reconcile_images(user_id) ==
  LET on_disk == list_user_images(user_id)
      in_db   == images_in_db(user_id)
  IN  [images_on_disk |-> on_disk, images_in_db |-> in_db,
       missing_in_db |-> SetDifference(on_disk, in_db),
       missing_on_disk |-> SetDifference(in_db, on_disk)]

ReconcileImages(user_id) ==
  LET r == reconcile_images(user_id)
  IN  /\ ret' = [op |-> "reconcile_images", user_id |-> user_id,
                 images_on_disk |-> r.images_on_disk, images_in_db |-> r.images_in_db,
                 missing_in_db |-> r.missing_in_db,
                 missing_on_disk |-> r.missing_on_disk]
      /\ UNCHANGED <<users, statuses, pictures, files, dirs, history, inflight>>

(***************************************************************************)
(* api.py                                                                  *)
(***************************************************************************)
\* The loop of Differences.get over users_list.
RECURSIVE DifferencesOf(_)
DifferencesOf(users_list) ==
  IF users_list = <<>> THEN <<>>
  ELSE LET user_id == users_list[1].user_id
           db_images == get_images_from_db(user_id)
           disk_images == get_images_from_disk(user_id)
           missing_in_db == SetDifference(disk_images, db_images)
           missing_on_disk == SetDifference(db_images, disk_images)
       IN  (IF missing_in_db # {} \/ missing_on_disk # {}
            THEN <<[user_id |-> user_id, missing_in_db |-> missing_in_db,
                    missing_on_disk |-> missing_on_disk]>>
            ELSE <<>>) \o DifferencesOf(Tail(users_list))

\* Differences.get
DifferencesGet ==
  /\ ret' = [op |-> "differences", body |-> DifferencesOf(RowsInOrder(users))]
  /\ UNCHANGED <<users, statuses, pictures, files, dirs, history, inflight>>

(***************************************************************************)
(* Specification of the program on its own: nothing else writes the        *)
(* database or the disk.                                                   *)
(***************************************************************************)
Next ==
  \/ \E u \in UserIds : AddUser(u)
  \/ \E u \in UserIds : DeleteUser(u)
  \/ \E u \in UserIds, sid \in StatusIds : AddStatus(sid, u)
  \/ \E u \in UserIds, t \in TagInputs : AddPicture(u, t)

Spec == Init /\ [][Next]_vars

(***************************************************************************)
(* The environment: the files below pictures/ are written and removed by   *)
(* others as well.                                                         *)
(***************************************************************************)
\* "#a"
EnvTagInputs == { <<"#", "a">> }

\* pictures/u/a/0000000005.png and pictures/v/0000000001.png
ExternalFiles ==
  { <<PICTURES, <<"u">>, <<"a">>, FileName(<<"0", "0", "0", "0", "0", "0", "0", "0", "0", "5">>)>>,
    <<PICTURES, <<"v">>, FileName(<<"0", "0", "0", "0", "0", "0", "0", "0", "0", "1">>)>> }

\* pictures/u/d.png, a directory
ExternalDirs == { <<PICTURES, <<"u">>, <<"d">> \o PNG>> }

ExtCreateFile(loc) ==
  /\ loc \notin files
  /\ ~MkdirRaises(SubSeq(loc, 1, Len(loc) - 1))
  /\ files' = files \cup {loc}
  /\ dirs' = MkdirParents(SubSeq(loc, 1, Len(loc) - 1))
  /\ ret' = [op |-> "external"]
  /\ UNCHANGED <<users, statuses, pictures, history, inflight>>

ExtRemoveFile(loc) ==
  /\ loc \in files
  /\ files' = files \ {loc}
  /\ ret' = [op |-> "external"]
  /\ UNCHANGED <<users, statuses, pictures, dirs, history, inflight>>

ExtCreateDir(loc) ==
  /\ loc \notin dirs
  /\ ~MkdirRaises(loc)
  /\ dirs' = MkdirParents(loc)
  /\ ret' = [op |-> "external"]
  /\ UNCHANGED <<users, statuses, pictures, files, history, inflight>>

InitEnv ==
  /\ users = {}
  /\ statuses = {}
  /\ pictures = {}
  /\ files = {}
  /\ dirs = {}
  /\ ret = [op |-> "init"]
  /\ history = <<>>
  /\ inflight = NoCall

NextEnv ==
  \/ \E u \in UserIds : AddUser(u)
  \/ \E u \in UserIds : DeleteUser(u)
  \/ \E u \in UserIds, t \in EnvTagInputs : AddPicture(u, t)
  \/ \E loc \in ExternalFiles : ExtCreateFile(loc)
  \/ \E loc \in files : ExtRemoveFile(loc)
  \/ \E loc \in ExternalDirs : ExtCreateDir(loc)
  \/ \E u \in UserIds : ReconcileImages(u)
  \/ DifferencesGet

SpecEnv == InitEnv /\ [][NextEnv]_vars

(***************************************************************************)
(* The tag canonicaliser on its own: one call on one raw string.           *)
(***************************************************************************)
\* "#t1 #t2 ... #tn"
RECURSIVE JoinTags(_)
JoinTags(ts) ==
  IF ts = <<>> THEN <<>>
  ELSE IF Len(ts) = 1 THEN <<"#">> \o ts[1]
  ELSE <<"#">> \o ts[1] \o <<" ">> \o JoinTags(Tail(ts))

TagAtoms == { <<"a">>, <<"b">>, <<"a", "b">>, <<".", ".">> }

RawInputs ==
  StringsUpTo(TagChars, MaxRawLen) \cup {JoinTags(ts) : ts \in SeqsUpTo(TagAtoms, MaxTags)}

InitTags ==
  /\ users = {}
  /\ statuses = {}
  /\ pictures = {}
  /\ files = {}
  /\ dirs = {}
  /\ history = <<>>
  /\ inflight = NoCall
  /\ \E raw \in RawInputs : ret = [op |-> "input", tags |-> raw]

CallDeconstructTags ==
  /\ ret.op = "input"
  /\ ret' = [op |-> "deconstruct_tags", tags |-> ret.tags,
             result |-> deconstruct_tags(ret.tags)]
  /\ UNCHANGED <<users, statuses, pictures, files, dirs, history, inflight>>

NextTags == CallDeconstructTags

SpecTags == InitTags /\ [][NextTags]_vars

(***************************************************************************)
(* Notions the properties are stated with                                   *)
(***************************************************************************)
\* The positions at which " #" occurs in s.
Occurrences(s) == {i \in 1..(Len(s) - 1) : s[i] = " " /\ s[i + 1] = "#"}

\* The text between the occurrence at i and the next one (or the end).
TokenAfter(s, i) ==
  LET later == {j \in Occurrences(s) : j > i}
      stop  == IF later = {} THEN Len(s) + 1
               ELSE CHOOSE j \in later : \A k \in later : j <= k
  IN  SubSeq(s, i + 2, stop - 1)

\* The tokens that follow the occurrences of " #" in " " + raw, as a bag:
\* token |-> number of occurrences it follows.
TokenCount(raw, t) ==
  LET s == <<" ">> \o raw
  IN  Cardinality({i \in Occurrences(s) : TokenAfter(s, i) = t})

\* The same tokens in the order of the string.
RECURSIVE TokensFrom(_, _)
TokensFrom(s, from) ==
  LET later == {j \in Occurrences(s) : j >= from}
  IN  IF later = {} THEN <<>>
      ELSE LET i == CHOOSE j \in later : \A k \in later : j <= k
           IN  <<TokenAfter(s, i)>> \o TokensFrom(s, i + 1)

TokensOf(raw) == TokensFrom(<<" ">> \o raw, 1)

Rearrangements(ts) ==
  {[i \in 1..Len(ts) |-> ts[p[i]]] : p \in Permutations(1..Len(ts))}

IsAscending(l) == \A i \in 1..(Len(l) - 1) : ~StrLess(l[i + 1], l[i])

CountIn(l, t) == Cardinality({i \in 1..Len(l) : l[i] = t})

\* A raw string that is exactly its '#'-prefixed tags joined by single spaces.
IsTagString(raw) == raw # <<>> /\ JoinTags(TokensOf(raw)) = raw

TagsBA == <<"#", "b", " ", "#", "a">>

TagsAB == <<"#", "a", " ", "#", "b">>

TagsAA == <<"#", "a", " ", "#", "a">>

PictureOne == <<"0", "0", "0", "0", "0", "0", "0", "0", "0", "1">>

(***************************************************************************)
(* C2: two raw tag strings that are rearrangements of the same '#'-prefixed *)
(* tags joined by single spaces give the identical sequence, and so the     *)
(* records that carry them (same user, same picture id) project to the same *)
(* path, in reconcile_images and in GET /differences.                       *)
(***************************************************************************)
C2_PermutationInvariant ==
  (ret.op = "deconstruct_tags" /\ IsTagString(ret.tags)) =>
    \A ts \in Rearrangements(TokensOf(ret.tags)) :
      /\ deconstruct_tags(JoinTags(ts)) = ret.result
      /\ \A u \in UserIds :
           /\ DbImageTuple(u, JoinTags(ts), PictureOne) = DbImageTuple(u, ret.tags, PictureOne)
           /\ DbImagePath(u, JoinTags(ts), PictureOne) = DbImagePath(u, ret.tags, PictureOne)

\* "#b #a" was canonicalised to ["a", "b"], as "#a #b" is.
C2_Witness ==
  /\ ret.op = "deconstruct_tags"
  /\ ret.tags = TagsBA
  /\ ret.result = << <<"a">>, <<"b">> >>
  /\ TagsAB \in {JoinTags(ts) : ts \in Rearrangements(TokensOf(ret.tags))}

\* raw with one more space put in after position i (a space, or the end).
WithExtraSpace(raw, i) == SubSeq(raw, 1, i) \o <<" ">> \o SubSeq(raw, i + 1, Len(raw))

SpacePositions(raw) == {i \in 1..Len(raw) : raw[i] = " " \/ i = Len(raw)}

WellFormedTag(t) == t # <<>> /\ " " \notin Range(t) /\ "#" \notin Range(t)

(***************************************************************************)
(* C3: the canonical sequence does not depend on the whitespace of the raw  *)
(* string (one more space between or after the tags changes nothing) and    *)
(* holds no empty or malformed token.                                       *)
(***************************************************************************)
C3_WhitespaceInsensitive ==
  ret.op = "deconstruct_tags" =>
    /\ \A t \in Range(ret.result) : WellFormedTag(t)
    /\ \A i \in SpacePositions(ret.tags) :
         deconstruct_tags(WithExtraSpace(ret.tags, i)) = ret.result

(***************************************************************************)
(* C4: deconstruct_tags returns exactly the tokens that follow the          *)
(* occurrences of " #" in " " + raw, one element per occurrence, duplicates *)
(* kept, in ascending order; the empty string gives the empty sequence.     *)
(***************************************************************************)
C4_TokensSorted ==
  ret.op = "deconstruct_tags" =>
    /\ Len(ret.result) = Cardinality(Occurrences(<<" ">> \o ret.tags))
    /\ \A t \in Range(ret.result) \cup Range(TokensOf(ret.tags)) :
         CountIn(ret.result, t) = TokenCount(ret.tags, t)
    /\ IsAscending(ret.result)
    /\ (ret.tags = <<>> => ret.result = <<>>)

\* "#a #a" gave ["a", "a"].
C4_Witness ==
  /\ ret.op = "deconstruct_tags"
  /\ ret.tags = TagsAA
  /\ ret.result = << <<"a">>, <<"a">> >>

(***************************************************************************)
(* Notions for the properties of add_picture                                *)
(***************************************************************************)
\* The tokens of raw in ascending order.
CanonicalTags(raw) == CHOOSE l \in Rearrangements(TokensOf(raw)) : IsAscending(l)

DigitValue(c) == CHOOSE d \in 0..9 : Digits[d + 1] = c

\* The number a string of decimal digits denotes.
RECURSIVE DecimalValue(_)
DecimalValue(s) ==
  IF s = <<>> THEN 0
  ELSE 10 * DecimalValue(SubSeq(s, 1, Len(s) - 1)) + DigitValue(s[Len(s)])

IsDecimal(s) == \A i \in 1..Len(s) : \E d \in 0..9 : Digits[d + 1] = s[i]

\* The record inserted last.
LastInserted(table) == CHOOSE r \in table : \A q \in table : q.id <= r.id

\* This step is an add_picture that returned True.
AddPictureSucceeded == ret'.op = "add_picture" /\ ret'.result = "True"

(***************************************************************************)
(* C5: a successful add_picture(user_id, tags) that allocates p creates     *)
(* exactly one file, the one that                                           *)
(* pictures/<user_id>/<t_1>/.../<t_n>/<p>.png names for the canonical tag    *)
(* sequence t_1..t_n, and that file lies n directories below                *)
(* pictures/<user_id>/.                                                     *)
(***************************************************************************)
C5_OneFileAtTagDepth ==
  [][AddPictureSucceeded =>
       LET canon   == CanonicalTags(ret'.tags)
           claimed == <<PICTURES, ret'.user_id>> \o canon \o <<FileName(ret'.picture_id)>>
       IN  /\ files' \ files = {Resolve(PathParts(claimed))}
           /\ \A f \in files' \ files :
                /\ IsPrefix(<<PICTURES, ret'.user_id>>, f)
                /\ Len(f) - 3 = Len(canon)]_vars

(***************************************************************************)
(* C7: with add_picture the only writer of pictures and files, every        *)
(* picture record has its file and reconcile_images returns two empty sets  *)
(* for every user.                                                          *)
(***************************************************************************)
C7_AddedPicturesReconcile ==
  /\ Cardinality(files) = Cardinality(pictures)
  /\ \A u \in UserIds :
       /\ reconcile_images(u).missing_in_db = {}
       /\ reconcile_images(u).missing_on_disk = {}

(***************************************************************************)
(* C8: add_picture on a store without picture records assigns               *)
(* "0000000001"; otherwise it assigns N + 1, in decimal, zero-padded to     *)
(* width 10, where N is the picture_id of the record inserted last,         *)
(* whichever user that record belongs to.                                   *)
(***************************************************************************)
C8_NextPictureId ==
  [][AddPictureSucceeded =>
       /\ Len(ret'.picture_id) = 10
       /\ IsDecimal(ret'.picture_id)
       /\ IF pictures = {}
          THEN ret'.picture_id = PictureOne
          ELSE DecimalValue(ret'.picture_id)
                 = DecimalValue(LastInserted(pictures).picture_id) + 1]_vars

\* User v was given "0000000010" after nine pictures of user u.
C8_Witness ==
  /\ ret.op = "add_picture"
  /\ ret.result = "True"
  /\ ret.user_id = <<"v">>
  /\ ret.picture_id = <<"0", "0", "0", "0", "0", "0", "0", "0", "1", "0">>
  /\ \E r \in pictures : r.user_id = <<"u">> /\ DecimalValue(r.picture_id) = 9

(***************************************************************************)
(* C9: no two picture records have the same picture_id, and the ids         *)
(* assigned by successive successful add_picture calls strictly increase,   *)
(* whatever add_user and delete_user calls come in between.                 *)
(***************************************************************************)
C9_UniqueIncreasing ==
  /\ \A r1, r2 \in pictures : r1.picture_id = r2.picture_id => r1 = r2
  /\ \A i, j \in 1..Len(history) :
       i < j => DecimalValue(history[i]) < DecimalValue(history[j])
  /\ \A r \in pictures : \A j \in 1..Len(history) :
       r.picture_id \notin Range(history) =>
         DecimalValue(r.picture_id) < DecimalValue(history[j])

\* Two pictures were added for two users, the first user deleted in between.
C9_Witness ==
  /\ Len(history) = 2
  /\ \E r1, r2 \in pictures :
       /\ r1.picture_id = history[1]
       /\ r2.picture_id = history[2]
       /\ r1.user_id # r2.user_id
       /\ ~\E row \in users : row.user_id = r1.user_id

(***************************************************************************)
(* C10: add_picture for a user_id without a record in the users table       *)
(* returns False, allocates no id, and leaves the pictures table and the    *)
(* directory tree as they were.                                             *)
(***************************************************************************)
C10_MissingUserRejected ==
  [][(ret'.op = "add_picture" /\ ~\E row \in users : row.user_id = ret'.user_id) =>
       /\ ret'.result = "False"
       /\ ret'.picture_id = <<>>
       /\ pictures' = pictures
       /\ files' = files
       /\ dirs' = dirs]_vars

\* add_picture was refused for a user that is not there, on a store that
\* holds pictures and files.
C10_Witness ==
  /\ ret.op = "add_picture"
  /\ ret.result = "False"
  /\ ~\E row \in users : row.user_id = ret.user_id
  /\ pictures # {}
  /\ files # {}

PartitionLaw(D, B, missing_in_db, missing_on_disk) ==
  /\ missing_in_db = D \ B
  /\ missing_on_disk = B \ D
  /\ missing_in_db \cap missing_on_disk = {}
  /\ missing_in_db \cup missing_on_disk = (D \cup B) \ (D \cap B)
  /\ (D \cap B) \cap (missing_in_db \cup missing_on_disk) = {}

(***************************************************************************)
(* C1: reconcile_images, and GET /differences for each user it reports,     *)
(* return missing_in_db = D \ B and missing_on_disk = B \ D for the disk    *)
(* paths D and the database paths B: the two are disjoint, their union is   *)
(* the symmetric difference, and nothing of D \cap B is in either.          *)
(***************************************************************************)
C1_ReconcilePartition ==
  /\ ret.op = "reconcile_images" =>
       PartitionLaw(ret.images_on_disk, ret.images_in_db,
                    ret.missing_in_db, ret.missing_on_disk)
  /\ ret.op = "differences" =>
       \A k \in 1..Len(ret.body) :
         PartitionLaw(get_images_from_disk(ret.body[k].user_id),
                      get_images_from_db(ret.body[k].user_id),
                      ret.body[k].missing_in_db, ret.body[k].missing_on_disk)

\* A reconciliation with a picture on both sides, one only on disk and one
\* only in the database.
C1_Witness ==
  /\ ret.op = "reconcile_images"
  /\ ret.images_on_disk \cap ret.images_in_db # {}
  /\ ret.missing_in_db # {}
  /\ ret.missing_on_disk # {}

EndsWith(s, tail) == Len(s) >= Len(tail) /\ SubSeq(s, Len(s) - Len(tail) + 1, Len(s)) = tail

TagsA == <<"#", "a">>

PathATuple(u, name) == <<u, <<"a", "/">> \o name, name>>

PathALocation(u, name) == <<PICTURES, u, <<"a">>, name>>

NULL == "NULL"

\* What the menu reads for a name; "" is an empty line.
NameInputs == {"", "m"}

\* What the menu reads for a status text; "" is an empty line.
TextInputs == {"", "x"}

\* What the menu reads for the user of a status; <<>> is an empty line.
OwnerInputs == {<<>>} \cup UserIds

\* updated_data of update_user, as the row it inserts: only the arguments
\* that are not empty are in it.
UpdatedUser(user_id, user_name, user_last_name, user_email) ==
  [id |-> 0, user_id |-> user_id,
   user_name |-> IF user_name # "" THEN user_name ELSE NULL,
   user_last_name |-> IF user_last_name # "" THEN user_last_name ELSE NULL,
   user_email |-> IF user_email # "" THEN user_email ELSE NULL]

\* main.update_user: every row of the user is deleted and one row inserted,
\* in one transaction.
UpdateUser(user_id, user_name, user_last_name, user_email) ==
  LET remaining == users \ UserRows(user_id)
  IN  /\ UserExists(user_id) => NextRowId(remaining) <= MaxUsers
      /\ IF ~UserExists(user_id)
         THEN /\ users' = users
              /\ ret' = [op |-> "update_user", user_id |-> user_id, result |-> "False"]
         ELSE /\ users' = Insert(remaining,
                                 UpdatedUser(user_id, user_name, user_last_name, user_email))
              /\ ret' = [op |-> "update_user", user_id |-> user_id, result |-> "True"]
      /\ UNCHANGED <<statuses, pictures, files, dirs, history, inflight>>

\* The function main.search_user returns: the first row of the user, or None.
SearchUser(user_id) ==
  /\ ret' = [op |-> "search_user", user_id |-> user_id,
             result |-> IF UserExists(user_id) THEN "Row" ELSE "None",
             row |-> IF UserExists(user_id)
                     THEN <<RowsInOrder(UserRows(user_id))[1]>> ELSE <<>>]
  /\ UNCHANGED <<users, statuses, pictures, files, dirs, history, inflight>>

StatusRows(status_id) == {r \in statuses : r.status_id = status_id}

\* updated_data of update_status, as the row it inserts: the user and the
\* text of the old row are kept when none is given.
UpdatedStatus(status_to_modify, status_id, user_id, status_text) ==
  [id |-> 0, status_id |-> status_id,
   user_id |-> IF user_id # <<>> THEN user_id ELSE status_to_modify.user_id,
   status_text |-> IF status_text # "" THEN status_text
                   ELSE status_to_modify.status_text]

\* main.update_status
UpdateStatus(status_id, user_id, status_text) ==
  LET remaining == statuses \ StatusRows(status_id)
  IN  /\ StatusRows(status_id) # {} => NextRowId(remaining) <= MaxStatuses
      /\ IF StatusRows(status_id) = {}
         THEN /\ statuses' = statuses
              /\ ret' = [op |-> "update_status", status_id |-> status_id,
                         result |-> "False"]
         ELSE /\ statuses' = Insert(remaining,
                                    UpdatedStatus(RowsInOrder(StatusRows(status_id))[1],
                                                  status_id, user_id, status_text))
              /\ ret' = [op |-> "update_status", status_id |-> status_id,
                         result |-> "True"]
      /\ UNCHANGED <<users, pictures, files, dirs, history, inflight>>

\* main.delete_status: the first row with the status_id is deleted; without
\* one the loop body never runs and the function returns None.
DeleteStatus(status_id) ==
  /\ IF StatusRows(status_id) = {}
     THEN /\ statuses' = statuses
          /\ ret' = [op |-> "delete_status", status_id |-> status_id, result |-> "None"]
     ELSE /\ statuses' = statuses \ {RowsInOrder(StatusRows(status_id))[1]}
          /\ ret' = [op |-> "delete_status", status_id |-> status_id, result |-> "True"]
  /\ UNCHANGED <<users, pictures, files, dirs, history, inflight>>

\* main.search_status: the first row with the status_id, or None.
SearchStatus(status_id) ==
  /\ ret' = [op |-> "search_status", status_id |-> status_id,
             result |-> IF StatusRows(status_id) # {} THEN "Row" ELSE "None",
             row |-> IF StatusRows(status_id) # {}
                     THEN <<RowsInOrder(StatusRows(status_id))[1]>> ELSE <<>>]
  /\ UNCHANGED <<users, statuses, pictures, files, dirs, history, inflight>>

\* menu.add_status: it calls main.add_status, which returns None whether it
\* inserted or not, and prints according to that value.
MenuAddStatus(status_id, user_id) ==
  LET result == "None"
  IN  /\ UserExists(user_id) => NextRowId(statuses) <= MaxStatuses
      /\ statuses' = IF UserExists(user_id)
                     THEN Insert(statuses, [id |-> 0, status_id |-> status_id,
                                            user_id |-> user_id, status_text |-> "t"])
                     ELSE statuses
      /\ ret' = [op |-> "menu.add_status", user_id |-> user_id,
                 status_id |-> status_id, result |-> result,
                 printed |-> IF result = "None"
                             THEN "New status was successfully added."
                             ELSE "An error occurred while trying to add the new status."]
      /\ UNCHANGED <<users, pictures, files, dirs, history, inflight>>

NextOps ==
  \/ \E u \in UserIds : AddUser(u)
  \/ \E u \in UserIds, name \in NameInputs : UpdateUser(u, name, "", "")
  \/ \E u \in UserIds : DeleteUser(u)
  \/ \E u \in UserIds : SearchUser(u)
  \/ \E u \in UserIds, sid \in StatusIds : MenuAddStatus(sid, u)
  \/ \E sid \in StatusIds, u \in OwnerInputs, text \in TextInputs : UpdateStatus(sid, u, text)
  \/ \E sid \in StatusIds : DeleteStatus(sid)
  \/ \E sid \in StatusIds : SearchStatus(sid)
  \/ \E u \in UserIds, t \in EnvTagInputs : AddPicture(u, t)

SpecOps == InitEnv /\ [][NextOps]_vars

(***************************************************************************)
(* The calls step by step.  add_picture inserts its record and then writes *)
(* the file; update_user and update_status delete and then insert inside   *)
(* one transaction, whose changes reach the tables when it commits.  A     *)
(* reconciliation may run, and the process may stop, between two steps.    *)
(***************************************************************************)
\* A transaction that leaves its delete behind when it is abandoned.
RollbackKeepsDelete(committed, working) == working

\* The table after the transaction was left by an exception, or the process
\* stopped before the commit: as it was committed.
Rollback(committed, working) == committed

\* add_picture that writes the file first and has not inserted yet.
AddPictureInsertFileFirst(user_id, tags) ==
  /\ inflight = NoCall
  /\ UserExists(user_id)
  /\ NextRowId(pictures) <= MaxPictures
  /\ ~SaveRaises(user_id, NewPictureId(LastPictureId(user_id)), tags)
  /\ dirs' = MkdirParents(PictureFolder(user_id, tags))
  /\ files' = files \cup {Resolve(PictureFile(user_id, NewPictureId(LastPictureId(user_id)), tags))}
  /\ inflight' = [op |-> "add_picture", user_id |-> user_id, tags |-> tags,
                  picture_id |-> NewPictureId(LastPictureId(user_id))]
  /\ UNCHANGED <<users, statuses, pictures, ret, history>>

\* add_picture up to its insert: the user check, the new id, the insert.
AddPictureInsert(user_id, tags) ==
  /\ inflight = NoCall
  /\ UserExists(user_id) => NextRowId(pictures) <= MaxPictures
  /\ IF ~UserExists(user_id)
     THEN /\ ret' = [op |-> "add_picture", user_id |-> user_id, tags |-> tags,
                     result |-> "False", picture_id |-> <<>>]
          /\ UNCHANGED <<pictures, inflight>>
     ELSE LET new_picture_id == NewPictureId(LastPictureId(user_id))
          IN  /\ pictures' = Insert(pictures, [id |-> 0, picture_id |-> new_picture_id,
                                               user_id |-> user_id, tags |-> tags])
              /\ inflight' = [op |-> "add_picture", user_id |-> user_id, tags |-> tags,
                              picture_id |-> new_picture_id]
              /\ ret' = ret
  /\ UNCHANGED <<users, statuses, files, dirs, history>>

\* The insert of add_picture raises IntegrityError: nothing is inserted and
\* the function returns False before save_picture_to_disk.
AddPictureInsertRaises(user_id, tags) ==
  /\ inflight = NoCall
  /\ UserExists(user_id)
  /\ ret' = [op |-> "add_picture", user_id |-> user_id, tags |-> tags,
             result |-> "False", picture_id |-> NewPictureId(LastPictureId(user_id))]
  /\ UNCHANGED <<users, statuses, pictures, files, dirs, history, inflight>>

\* add_picture after its insert: save_picture_to_disk and the return.
AddPictureSave ==
  /\ inflight.op = "add_picture"
  /\ LET raised == SaveRaises(inflight.user_id, inflight.picture_id, inflight.tags)
     IN  /\ dirs' = IF raised THEN dirs
                    ELSE MkdirParents(PictureFolder(inflight.user_id, inflight.tags))
         /\ files' = IF raised THEN files
                     ELSE files \cup {Resolve(PictureFile(inflight.user_id,
                                                          inflight.picture_id,
                                                          inflight.tags))}
         /\ history' = IF raised THEN history ELSE Append(history, inflight.picture_id)
         /\ ret' = [op |-> "add_picture", user_id |-> inflight.user_id,
                    tags |-> inflight.tags,
                    result |-> IF raised THEN "Raised" ELSE "True",
                    picture_id |-> inflight.picture_id]
  /\ inflight' = NoCall
  /\ UNCHANGED <<users, statuses, pictures>>

\* update_user up to the delete inside its transaction.
UpdateUserDelete(user_id, user_name, user_last_name, user_email) ==
  /\ inflight = NoCall
  /\ UserExists(user_id) => NextRowId(users \ UserRows(user_id)) <= MaxUsers
  /\ IF ~UserExists(user_id)
     THEN /\ ret' = [op |-> "update_user", user_id |-> user_id, result |-> "False"]
          /\ inflight' = inflight
     ELSE /\ inflight' = [op |-> "update_user", user_id |-> user_id,
                          working |-> users \ UserRows(user_id),
                          updated_data |-> UpdatedUser(user_id, user_name,
                                                       user_last_name, user_email)]
          /\ ret' = ret
  /\ UNCHANGED <<users, statuses, pictures, files, dirs, history>>

\* update_user from the insert on: the insert, the commit, the return.
UpdateUserInsert ==
  /\ inflight.op = "update_user"
  /\ users' = Insert(inflight.working, inflight.updated_data)
  /\ ret' = [op |-> "update_user", user_id |-> inflight.user_id, result |-> "True"]
  /\ inflight' = NoCall
  /\ UNCHANGED <<statuses, pictures, files, dirs, history>>

\* update_status up to the delete inside its transaction.
UpdateStatusDelete(status_id, user_id, status_text) ==
  /\ inflight = NoCall
  /\ StatusRows(status_id) # {} =>
       NextRowId(statuses \ StatusRows(status_id)) <= MaxStatuses
  /\ IF StatusRows(status_id) = {}
     THEN /\ ret' = [op |-> "update_status", status_id |-> status_id, result |-> "False"]
          /\ inflight' = inflight
     ELSE /\ inflight' = [op |-> "update_status", status_id |-> status_id,
                          working |-> statuses \ StatusRows(status_id),
                          updated_data |->
                            UpdatedStatus(RowsInOrder(StatusRows(status_id))[1],
                                          status_id, user_id, status_text)]
          /\ ret' = ret
  /\ UNCHANGED <<users, statuses, pictures, files, dirs, history>>

\* update_status from the insert on: the insert, the return, the commit.
UpdateStatusInsert ==
  /\ inflight.op = "update_status"
  /\ statuses' = Insert(inflight.working, inflight.updated_data)
  /\ ret' = [op |-> "update_status", status_id |-> inflight.status_id, result |-> "True"]
  /\ inflight' = NoCall
  /\ UNCHANGED <<users, pictures, files, dirs, history>>

\* The insert of an update raises: the transaction is rolled back and the
\* function returns False.
UpdateInsertRaises ==
  /\ inflight.op \in {"update_user", "update_status"}
  /\ users' = IF inflight.op = "update_user"
              THEN Rollback(users, inflight.working) ELSE users
  /\ statuses' = IF inflight.op = "update_status"
                 THEN Rollback(statuses, inflight.working) ELSE statuses
  /\ ret' = IF inflight.op = "update_user"
            THEN [op |-> "update_user", user_id |-> inflight.user_id, result |-> "False"]
            ELSE [op |-> "update_status", status_id |-> inflight.status_id,
                  result |-> "False"]
  /\ inflight' = NoCall
  /\ UNCHANGED <<pictures, files, dirs, history>>

\* The process stops between two steps of a call.  What add_picture inserted
\* stays; an open transaction is rolled back.
Crash ==
  /\ inflight # NoCall
  /\ users' = IF inflight.op = "update_user"
              THEN Rollback(users, inflight.working) ELSE users
  /\ statuses' = IF inflight.op = "update_status"
                 THEN Rollback(statuses, inflight.working) ELSE statuses
  /\ ret' = [op |-> "crash", during |-> inflight]
  /\ inflight' = NoCall
  /\ UNCHANGED <<pictures, files, dirs, history>>

\* The menu takes the next command when no call is in progress.
StepAddUser(user_id) == inflight = NoCall /\ AddUser(user_id)

StepAddStatus(status_id, user_id) == inflight = NoCall /\ AddStatus(status_id, user_id)

NextSteps ==
  \/ \E u \in UserIds : StepAddUser(u)
  \/ \E u \in UserIds, t \in TagInputs : AddPictureInsert(u, t)
  \/ \E u \in UserIds, t \in TagInputs : AddPictureInsertRaises(u, t)
  \/ AddPictureSave
  \/ Crash
  \/ \E u \in UserIds : ReconcileImages(u)
  \/ DifferencesGet

SpecSteps == InitEnv /\ [][NextSteps]_vars

\* The updates step by step, with the searches as the readers.
NextUpdates ==
  \/ \E u \in UserIds : StepAddUser(u)
  \/ \E u \in UserIds, sid \in StatusIds : StepAddStatus(sid, u)
  \/ \E u \in UserIds, name \in NameInputs : UpdateUserDelete(u, name, "", "")
  \/ UpdateUserInsert
  \/ \E sid \in StatusIds, u \in OwnerInputs, text \in TextInputs :
       UpdateStatusDelete(sid, u, text)
  \/ UpdateStatusInsert
  \/ UpdateInsertRaises
  \/ Crash
  \/ \E u \in UserIds : SearchUser(u)
  \/ \E sid \in StatusIds : SearchStatus(sid)

SpecUpdates == InitEnv /\ [][NextUpdates]_vars

(***************************************************************************)
(* Notions for the properties of the disk scan and of GET /differences      *)
(***************************************************************************)
\* The regular files below pictures/<user_id>/ whose name has the extension
\* .png.
PngFilesBelow(user_id) ==
  {f \in files : /\ Len(f) > 2
                 /\ IsPrefix(<<PICTURES, user_id>>, f)
                 /\ Suffix(f[Len(f)]) = PNG}

\* No entry at pictures/<user_id>.
NoUserFolder(user_id) == <<PICTURES, user_id>> \notin files \cup dirs

(***************************************************************************)
(* C11: the disk scan of a user, in list_user_images and in                 *)
(* Differences.get_images_from_disk, returns exactly the regular files      *)
(* below pictures/<user_id>/, at any depth, whose name has the extension    *)
(* .png: no directory and no file of another user; it returns the empty     *)
(* result when pictures/<user_id>/ does not exist, and reconcile_images     *)
(* of a user without records and without a directory returns two empty      *)
(* sets.                                                                    *)
(***************************************************************************)
C11_ScanRegularPngFiles ==
  /\ \A u \in UserIds :
       /\ list_user_images(u)
            = {<<u, RelativeTo(f, <<PICTURES, u>>), f[Len(f)]>> : f \in PngFilesBelow(u)}
       /\ get_images_from_disk(u)
            = {PathStr(SubSeq(f, 2, Len(f))) : f \in PngFilesBelow(u)}
       /\ NoUserFolder(u) =>
            list_user_images(u) = {} /\ get_images_from_disk(u) = {}
  /\ (/\ ret.op = "reconcile_images"
      /\ NoUserFolder(ret.user_id)
      /\ ~\E r \in pictures : r.user_id = ret.user_id) =>
       ret.missing_in_db = {} /\ ret.missing_on_disk = {}

\* The location of the file of a picture record.
RecordLocation(r) == Resolve(PictureFile(r.user_id, r.picture_id, r.tags))

\* The disk paths and the database paths of the user differ.
Differs(user_id) == get_images_from_disk(user_id) # get_images_from_db(user_id)

(***************************************************************************)
(* C12: GET /differences returns one entry for exactly the users whose      *)
(* disk paths and database paths differ, holding the two set differences    *)
(* of that user, and the empty array when no user differs; every picture    *)
(* record without a file and every .png file below pictures/ without a      *)
(* record is in the entry of its user_id.                                   *)
(***************************************************************************)
C12_DifferencesPerUser ==
  ret.op = "differences" =>
    LET body == ret.body
    IN  /\ \A k \in 1..Len(body) :
             /\ Differs(body[k].user_id)
             /\ body[k].missing_in_db
                  = get_images_from_disk(body[k].user_id) \ get_images_from_db(body[k].user_id)
             /\ body[k].missing_on_disk
                  = get_images_from_db(body[k].user_id) \ get_images_from_disk(body[k].user_id)
        /\ \A k1, k2 \in 1..Len(body) : body[k1].user_id = body[k2].user_id => k1 = k2
        /\ \A row \in users :
             Differs(row.user_id) => \E k \in 1..Len(body) : body[k].user_id = row.user_id
        /\ (\A row \in users : ~Differs(row.user_id)) => body = <<>>
        /\ \A r \in pictures :
             RecordLocation(r) \notin files =>
               \E k \in 1..Len(body) :
                 /\ body[k].user_id = r.user_id
                 /\ DbImagePath(r.user_id, r.tags, r.picture_id) \in body[k].missing_on_disk
        /\ \A f \in files :
             (/\ Len(f) > 2
              /\ f[1] = PICTURES
              /\ Suffix(f[Len(f)]) = PNG
              /\ ~\E r \in pictures : RecordLocation(r) = f) =>
               \E k \in 1..Len(body) :
                 /\ body[k].user_id = f[2]
                 /\ PathStr(SubSeq(f, 2, Len(f))) \in body[k].missing_in_db

(***************************************************************************)
(* C13: after delete_user(user_id) returns, no picture record with that     *)
(* user_id is left in the pictures table, and the picture records of the    *)
(* other users are as they were.                                            *)
(***************************************************************************)
C13_DeleteUserRemovesPictures ==
  [][ret'.op = "delete_user" =>
       /\ ~\E r \in pictures' : r.user_id = ret'.user_id
       /\ {r \in pictures' : r.user_id # ret'.user_id}
            = {r \in pictures : r.user_id # ret'.user_id}]_vars

(***************************************************************************)
(* Notions for the properties of the record operations                      *)
(***************************************************************************)
\* The database and the disk.
Store == <<users, statuses, pictures, files, dirs>>

\* What an operation returns when it has done its work: add_status has no
\* return statement, the searches return the row, the others return True.
ValueOnSuccess(op) ==
  CASE op = "menu.add_status" -> "None"
    [] op \in {"search_user", "search_status"} -> "Row"
    [] OTHER -> "True"

\* This step is a call whose user, or whose status, is not in the store.
TargetAbsent ==
  \/ /\ ret'.op \in {"menu.add_status", "add_picture", "update_user",
                     "delete_user", "search_user"}
     /\ ~\E row \in users : row.user_id = ret'.user_id
  \/ /\ ret'.op \in {"update_status", "delete_status", "search_status"}
     /\ ~\E row \in statuses : row.status_id = ret'.status_id

(***************************************************************************)
(* C14: an operation whose user or status is absent returns, without        *)
(* raising, a value that differs from the value it returns on success, and  *)
(* leaves the store as it was; the menu does not report success for         *)
(* add_status on a user that does not exist.                                *)
(***************************************************************************)
C14_AbsentTargetFails ==
  [][TargetAbsent =>
       /\ ret'.result # ValueOnSuccess(ret'.op)
       /\ ret'.result # "Raised"
       /\ Store' = Store
       /\ ret'.op = "menu.add_status" =>
            ret'.printed # "New status was successfully added."]_vars

(***************************************************************************)
(* Notions for the properties of the calls step by step                     *)
(***************************************************************************)
\* Every file of the disk has a picture record in the table whose path
\* names it.
NoFileWithoutRecord(table, disk) == \A f \in disk : \E r \in table : RecordLocation(r) = f

\* The record of the call is in the table and its file is not on the disk.
RecordWithoutFile(call, table, disk) ==
  \E r \in table :
    /\ r.picture_id = call.picture_id
    /\ r.user_id = call.user_id
    /\ r.tags = call.tags
    /\ RecordLocation(r) \notin disk

(***************************************************************************)
(* C15: add_picture inserts the record before it writes the file, and       *)
(* writes the file only after the insert succeeded.  A reconciliation or a  *)
(* crash between the two steps finds the new record without its file: the   *)
(* path of the picture is in missing_on_disk and not in missing_in_db.  At  *)
(* no point, the return of add_picture after a failed insert included, is   *)
(* there a file written by add_picture without its record.                  *)
(***************************************************************************)
C15_InsertBeforeSave ==
  [][/\ NoFileWithoutRecord(pictures', files')
     /\ inflight'.op = "add_picture" => RecordWithoutFile(inflight', pictures', files')
     /\ (inflight.op = "add_picture" /\ ret'.op = "reconcile_images"
           /\ ret'.user_id = inflight.user_id) =>
          LET t == DbImageTuple(inflight.user_id, inflight.tags, inflight.picture_id)
          IN  t \in ret'.missing_on_disk /\ t \notin ret'.missing_in_db
     /\ (inflight.op = "add_picture" /\ ret'.op = "differences") =>
          LET path == DbImagePath(inflight.user_id, inflight.tags, inflight.picture_id)
          IN  /\ \E k \in 1..Len(ret'.body) :
                   /\ ret'.body[k].user_id = inflight.user_id
                   /\ path \in ret'.body[k].missing_on_disk
              /\ \A k \in 1..Len(ret'.body) : path \notin ret'.body[k].missing_in_db
     /\ (inflight.op = "add_picture" /\ ret'.op = "crash") =>
          RecordWithoutFile(inflight, pictures', files')
     /\ (inflight = NoCall /\ inflight' = NoCall
           /\ ret'.op = "add_picture" /\ ret'.result = "False") =>
          files' = files /\ pictures' = pictures]_vars

\* reconcile_images ran between the insert and the disk write of
\* add_picture("u", "#b #a") and reported the new picture as missing on disk.
C15_Witness ==
  /\ inflight.op = "add_picture"
  /\ inflight.tags = TagsBA
  /\ ret.op = "reconcile_images"
  /\ ret.user_id = inflight.user_id
  /\ DbImageTuple(inflight.user_id, inflight.tags, inflight.picture_id)
       \in ret.missing_on_disk
  /\ files # {}

\* This step abandons an update between its delete and its insert: the
\* process stops, or the insert raises and the function returns False.
UpdateAbandoned ==
  /\ inflight.op \in {"update_user", "update_status"}
  /\ inflight' = NoCall
  /\ ret'.op = "crash" \/ ret'.result = "False"

\* The table holds the record the update is about.
TargetIn(call, user_rows, status_rows) ==
  IF call.op = "update_user"
  THEN \E r \in user_rows : r.user_id = call.user_id
  ELSE \E r \in status_rows : r.status_id = call.status_id

(***************************************************************************)
(* C16 as stated: a crash or a failure between the delete and the insert   *)
(* of update_user or update_status loses the record, which is then deleted *)
(* and not reinserted.                                                      *)
(***************************************************************************)
C16_AbandonedUpdateLosesRecord ==
  [][UpdateAbandoned => ~TargetIn(inflight, users', statuses')]_vars

(***************************************************************************)
(* C16 as amended: update_user and update_status delete the record and      *)
(* insert the changed copy inside one transaction.  A crash or a failure    *)
(* between the delete and the insert rolls the delete back and leaves the   *)
(* tables as they were; while the update runs and when it has returned,     *)
(* the tables hold a record with that user_id or status_id.                 *)
(***************************************************************************)
C16_UpdateKeepsRecord ==
  [][/\ inflight.op \in {"update_user", "update_status"} =>
          TargetIn(inflight, users', statuses')
     /\ inflight'.op \in {"update_user", "update_status"} =>
          TargetIn(inflight', users', statuses')
     /\ UpdateAbandoned => users' = users /\ statuses' = statuses]_vars

\* The process stopped between the delete and the insert of update_user and
\* the row of the user is in the table as it was.
C16_Witness ==
  /\ ret.op = "crash"
  /\ ret.during.op = "update_user"
  /\ \E r \in users : r.user_id = ret.during.user_id /\ r.user_name = "n"
  /\ inflight = NoCall

====
